---------------------------- MODULE Spec2Model ----------------------------
(***************************************************************************)
(* Model of pbmoney (src/money.go): fixed-point money arithmetic over the  *)
(* google.type.Money record {CurrencyCode string, Units int64, Nanos       *)
(* int32}.                                                                 *)
(*                                                                         *)
(* Machine integers keep their width.  An int32 is an integer in           *)
(* MinInt32..MaxInt32 whose arithmetic wraps.  An int64 does not fit the   *)
(* model checker's integers, so it is a little-endian sequence of 8 bytes  *)
(* in two's complement; the same representation with MathBytes bytes       *)
(* serves as the mathematical integers in which a result is compared with  *)
(* the exact value.                                                        *)
(***************************************************************************)
EXTENDS Integers, Sequences, FiniteSets

VARIABLES
    op,     \* the call that produced the result fields ("none": not called yet)
    l,      \* first operand (l, or m in the one-operand functions)
    r,      \* second operand of Sum, MultipleFast, DivideFast
    n,      \* scalar operand: uint32 n of MultiplyInt / DivideInt
    k,      \* scalar operand: int64 r of MultipleFastInt / DivideFastInt
    out,    \* returned *pb.Money
    err,    \* returned error
    fault,  \* run-time panic that ended the call, FaultNone when it returned
    flag,   \* returned bool
    num,    \* returned int64
    text    \* returned string, a sequence of characters

vars == <<op, l, r, n, k, out, err, fault, flag, num, text>>

---------------------------------------------------------------------------
(* Program constants, src/money.go:11-15 *)

nanosMin == -999999999

nanosMax == 999999999

nanosMod == 1000000000

---------------------------------------------------------------------------
(* int32: Go's wrapping 32-bit arithmetic, computed without leaving the    *)
(* range MinInt32..MaxInt32 in any intermediate value.                     *)

MaxInt32 == 2147483647

MinInt32 == -MaxInt32 - 1

Int32Add(a, b) ==
    IF b > 0 /\ a > MaxInt32 - b
    THEN ((a - MaxInt32) - 1) + ((b - MaxInt32) - 1)      \* a + b - 2^32
    ELSE IF b < 0 /\ a < MinInt32 - b
    THEN (a - MinInt32) + (b - MinInt32)                  \* a + b + 2^32
    ELSE a + b

Int32Neg(a) == IF a = MinInt32 THEN MinInt32 ELSE -a

Int32Sub(a, b) ==
    IF b = MinInt32 THEN Int32Add(Int32Add(a, MaxInt32), 1) ELSE Int32Add(a, -b)

\* Go's / and % on an int32 truncate toward zero; the divisors of this
\* program are positive constants (\div rounds down and % is non-negative)
TruncQuot(a, b) == IF a >= 0 \/ a % b = 0 THEN a \div b ELSE (a \div b) + 1

TruncRem(a, b) == IF a >= 0 \/ a % b = 0 THEN a % b ELSE (a % b) - b

---------------------------------------------------------------------------
(* Two's-complement integers as little-endian byte sequences.              *)

Byte == 2^8

Int64Bytes == 8

\* width of the integers used for exact values: a small multiple of an
\* int64 fits
MathBytes == Int64Bytes + 2

RECURSIVE FromInt(_, _)
\* the w-byte two's complement of the integer x (\div rounds down, so a
\* negative x sign-extends)
FromInt(x, w) == IF w = 0 THEN <<>> ELSE <<x % Byte>> \o FromInt(x \div Byte, w - 1)

BZero(w) == [i \in 1..w |-> 0]

BIsZero(a) == \A i \in 1..Len(a) : a[i] = 0

BIsNeg(a) == a[Len(a)] >= Byte \div 2

BIsPos(a) == ~BIsNeg(a) /\ ~BIsZero(a)

RECURSIVE AddCarry(_, _, _, _)
AddCarry(a, b, i, c) ==
    IF i > Len(a) THEN <<>>
    ELSE LET s == a[i] + b[i] + c
         IN  <<s % Byte>> \o AddCarry(a, b, i + 1, s \div Byte)

\* a + b modulo 2^(8 * Len(a))
BAdd(a, b) == AddCarry(a, b, 1, 0)

BNot(a) == [i \in 1..Len(a) |-> (Byte - 1) - a[i]]

\* -a modulo 2^(8 * Len(a)); the most negative value negates to itself
BNeg(a) == AddCarry(BNot(a), BZero(Len(a)), 1, 1)

BSub(a, b) == AddCarry(a, BNot(b), 1, 1)

\* sign extension (or truncation) to w bytes
BExt(a, w) ==
    [i \in 1..w |-> IF i <= Len(a) THEN a[i]
                    ELSE IF BIsNeg(a) THEN Byte - 1 ELSE 0]

\* a w-byte value that is the sign extension of its low Int64Bytes bytes
FitsInt64(a) == BExt(SubSeq(a, 1, Int64Bytes), Len(a)) = a

RECURSIVE ULessFrom(_, _, _)
ULessFrom(a, b, i) ==
    IF i = 0 THEN FALSE
    ELSE IF a[i] # b[i] THEN a[i] < b[i]
    ELSE ULessFrom(a, b, i - 1)

\* a < b, both read as unsigned
ULess(a, b) == ULessFrom(a, b, Len(a))

RECURSIVE MulByteCarry(_, _, _, _)
MulByteCarry(a, d, i, c) ==
    IF i > Len(a) THEN <<>>
    ELSE LET s == a[i] * d + c
         IN  <<s % Byte>> \o MulByteCarry(a, d, i + 1, s \div Byte)

RECURSIVE MulFrom(_, _, _)
\* sum over j >= i of a * b[j] * 2^(8 * (j - i)), truncated to Len(a) bytes
MulFrom(a, b, i) ==
    IF i > Len(b) THEN BZero(Len(a))
    ELSE LET rest == MulFrom(a, b, i + 1)
             shifted == <<0>> \o SubSeq(rest, 1, Len(a) - 1)
         IN  IF b[i] = 0 THEN shifted
             ELSE BAdd(MulByteCarry(a, b[i], 1, 0), shifted)

\* a * b modulo 2^(8 * Len(a))
BMul(a, b) == MulFrom(a, b, 1)

\* zero extension to w bytes
UExt(a, w) == [i \in 1..w |-> IF i <= Len(a) THEN a[i] ELSE 0]

RECURSIVE DivDigit(_, _, _)
\* one base-256 digit of long division: <<d, rem - d * b>> for the largest
\* d < 2^(bit + 1) with d * b <= rem (unsigned; two spare bytes of headroom)
DivDigit(rem, b, bit) ==
    IF bit < 0 THEN <<0, rem>>
    ELSE LET sb == MulByteCarry(b, 2^bit, 1, 0)
         IN  IF ULess(rem, sb) THEN DivDigit(rem, b, bit - 1)
             ELSE LET x == DivDigit(BSub(rem, sb), b, bit - 1)
                  IN  <<2^bit + x[1], x[2]>>

RECURSIVE LongDivFrom(_, _, _, _)
\* long division of the bytes a[i], ..., a[1] with incoming remainder rem
LongDivFrom(a, b, i, rem) ==
    IF i = 0 THEN <<<<>>, rem>>
    ELSE LET cur == <<a[i]>> \o SubSeq(rem, 1, Len(rem) - 1)
             dg == IF ULess(cur, b) THEN <<0, cur>> ELSE DivDigit(cur, b, 7)
             rest == LongDivFrom(a, b, i - 1, dg[2])
         IN  <<rest[1] \o <<dg[1]>>, rest[2]>>

RECURSIVE LongDivSmall(_, _, _, _)
\* the same for a divisor d < 2^23, whose remainders fit an integer
LongDivSmall(a, d, i, rem) ==
    IF i = 0 THEN <<<<>>, rem>>
    ELSE LET cur == rem * Byte + a[i]
             rest == LongDivSmall(a, d, i - 1, cur % d)
         IN  <<rest[1] \o <<cur \div d>>, rest[2]>>

UIsSmall(b) == b[3] < Byte \div 2 /\ \A i \in 4..Len(b) : b[i] = 0

\* <<quotient, remainder>> of a by b # 0, both read as unsigned
UDivMod(a, b) ==
    IF UIsSmall(b)
    THEN LET res == LongDivSmall(a, b[3] * Byte^2 + b[2] * Byte + b[1],
                                 Len(a), 0)
         IN  <<res[1], FromInt(res[2], Len(a))>>
    ELSE LET w == Len(a) + 2
             res == LongDivFrom(a, UExt(b, w), Len(a), BZero(w))
         IN  <<res[1], SubSeq(res[2], 1, Len(a))>>

BAbs(a) == IF BIsNeg(a) THEN BNeg(a) ELSE a

\* Go's a / b on signed integers: truncated, wrapping for MinInt64 / -1
BQuot(a, b) ==
    LET q == UDivMod(BAbs(a), BAbs(b))[1]
    IN  IF BIsNeg(a) = BIsNeg(b) THEN q ELSE BNeg(q)

\* Go's a % b on signed integers: the sign of a
BRem(a, b) ==
    LET m == UDivMod(BAbs(a), BAbs(b))[2]
    IN  IF BIsNeg(a) THEN BNeg(m) ELSE m

\* int32(x) of an int64 x: the low four bytes, read as two's complement
ToInt32(a) ==
    LET top == IF a[4] >= Byte \div 2 THEN a[4] - Byte ELSE a[4]
    IN  top * Byte^3 + (a[3] * Byte^2 + a[2] * Byte + a[1])

Int64(x) == FromInt(x, Int64Bytes)

MinInt64 == [i \in 1..Int64Bytes |-> IF i = Int64Bytes THEN Byte \div 2 ELSE 0]

MaxInt64 == BNot(MinInt64)

---------------------------------------------------------------------------
(* pb.Money and the functions of src/money.go                              *)

Money(units, nanos, currencyCode) ==
    [Units |-> units, Nanos |-> nanos, CurrencyCode |-> currencyCode]

\* &pb.Money{}
EmptyMoney == Money(Int64(0), 0, "")

ErrNil == "nil"

ErrInvalidValue == "one of the specified money values is invalid"

ErrMismatchingCurrency == "mismatching currency codes"

FaultNone == "none"

\* panic(err) of Must
Panic(e) == "panic: " \o e

\* the run-time panic of an integer division by zero
DivideByZero == "panic: runtime error: integer divide by zero"

signMatches(m) ==
    m.Nanos = 0 \/ BIsZero(m.Units) \/ ((m.Nanos < 0) = BIsNeg(m.Units))

validNanos(nanos) == nanosMin <= nanos /\ nanos <= nanosMax

IsValid(m) == signMatches(m) /\ validNanos(m.Nanos)

IsZero(m) == BIsZero(m.Units) /\ m.Nanos = 0

\* && binds tighter than ||
IsPositive(m) ==
    (IsValid(m) /\ BIsPos(m.Units)) \/ (BIsZero(m.Units) /\ m.Nanos > 0)

IsNegative(m) ==
    (IsValid(m) /\ BIsNeg(m.Units)) \/ (BIsZero(m.Units) /\ m.Nanos < 0)

AreSameCurrency(a, b) ==
    a.CurrencyCode = b.CurrencyCode /\ a.CurrencyCode # ""

AreEquals(a, b) ==
    /\ a.CurrencyCode = b.CurrencyCode
    /\ a.Units = b.Units
    /\ a.Nanos = b.Nanos

\* a Negate that flips the units only
NegateUnitsOnly(m) == Money(BNeg(m.Units), m.Nanos, m.CurrencyCode)

Negate(m) == Money(BNeg(m.Units), Int32Neg(m.Nanos), m.CurrencyCode)

\* a (value, error) pair that a function returns
Returned(v, e) == [val |-> v, err |-> e]

\* a value, or the panic that ended the call
Completed(v) == [val |-> v, fault |-> FaultNone]

Panicked(f) == [val |-> EmptyMoney, fault |-> f]

Must(res) ==
    IF res.err # ErrNil THEN Panicked(Panic(res.err)) ELSE Completed(res.val)

\* the two checks of Sum in the other order
sumErrorCurrencyFirst(a, b) ==
    IF a.CurrencyCode # b.CurrencyCode THEN ErrMismatchingCurrency
    ELSE IF ~IsValid(a) \/ ~IsValid(b) THEN ErrInvalidValue
    ELSE ErrNil

\* the two checks that open Sum
sumError(a, b) ==
    IF ~IsValid(a) \/ ~IsValid(b) THEN ErrInvalidValue
    ELSE IF a.CurrencyCode # b.CurrencyCode THEN ErrMismatchingCurrency
    ELSE ErrNil

\* the arithmetic of Sum, reached when both checks pass
sumValue(a, b) ==
    LET units == BAdd(a.Units, b.Units)
        nanos == Int32Add(a.Nanos, b.Nanos)
    IN  IF \/ BIsZero(units) /\ nanos = 0
           \/ BIsPos(units) /\ nanos >= 0
           \/ BIsNeg(units) /\ nanos <= 0
        THEN \* same sign <units, nanos>
             Money(BAdd(units, Int64(TruncQuot(nanos, nanosMod))),
                   TruncRem(nanos, nanosMod), a.CurrencyCode)
        ELSE IF BIsPos(units)
        THEN Money(BSub(units, Int64(1)), Int32Add(nanos, nanosMod),
                   a.CurrencyCode)
        ELSE Money(BAdd(units, Int64(1)), Int32Sub(nanos, nanosMod),
                   a.CurrencyCode)

Sum(a, b) ==
    IF sumError(a, b) # ErrNil THEN Returned(EmptyMoney, sumError(a, b))
    ELSE Returned(sumValue(a, b), ErrNil)

RECURSIVE sumLoop(_, _, _)
\* for n > 1 { out = Must(Sum(out, m)); n-- }
sumLoop(acc, m, cnt) ==
    IF cnt > 1
    THEN LET s == Must(Sum(acc, m))
         IN  IF s.fault # FaultNone THEN s ELSE sumLoop(s.val, m, cnt - 1)
    ELSE Completed(acc)

MultiplyInt(m, cnt) == sumLoop(m, m, cnt)

\* a DivideInt whose accumulator starts at m
DivideIntFromM(m, cnt) == sumLoop(m, m, cnt)

DivideInt(m, cnt) == sumLoop(Negate(m), m, cnt)

unitsAndNanoPartToMicros(units, nanos) ==
    BAdd(BMul(units, Int64(100)), Int64(TruncQuot(nanos, 10000000)))

\* |micros % 10000| < 10000, so the int32 product stays below 10^9
microsToUnitsAndNanoPart(micros) ==
    <<BQuot(micros, Int64(10000)),
      ToInt32(BRem(micros, Int64(10000))) * 100000>>

toGoogleMoney(valueMicros, currencyCode) ==
    LET p == microsToUnitsAndNanoPart(valueMicros)
    IN  Money(p[1], p[2], currencyCode)

MultipleFast(a, b) ==
    LET lr == unitsAndNanoPartToMicros(a.Units, a.Nanos)
        rr == unitsAndNanoPartToMicros(b.Units, b.Nanos)
    IN  Completed(toGoogleMoney(BMul(lr, rr), a.CurrencyCode))

DivideFast(a, b) ==
    LET lr == unitsAndNanoPartToMicros(a.Units, a.Nanos)
        rr == unitsAndNanoPartToMicros(b.Units, b.Nanos)
    IN  IF BIsZero(rr) THEN Panicked(DivideByZero)
        ELSE Completed(toGoogleMoney(BQuot(lr, rr), a.CurrencyCode))

DivideFastInt(a, d) ==
    LET lr == unitsAndNanoPartToMicros(a.Units, a.Nanos)
    IN  IF BIsZero(d) THEN Panicked(DivideByZero)
        ELSE Completed(toGoogleMoney(BQuot(lr, d), a.CurrencyCode))

MultipleFastInt(a, d) ==
    LET lr == unitsAndNanoPartToMicros(a.Units, a.Nanos)
    IN  Completed(toGoogleMoney(BMul(lr, d), a.CurrencyCode))

ToInt(m) == unitsAndNanoPartToMicros(m.Units, m.Nanos)

---------------------------------------------------------------------------
(* Strings are sequences of characters.                                    *)

Digit(d) == <<"0", "1", "2", "3", "4", "5", "6", "7", "8", "9">>[d + 1]

RECURSIVE NatDigits(_)
NatDigits(x) ==
    IF x < 10 THEN <<Digit(x)>> ELSE NatDigits(x \div 10) \o <<Digit(x % 10)>>

\* strconv.Itoa(int(x)) of an int32 x
Itoa(x) ==
    IF x >= 0 THEN NatDigits(x)
    ELSE <<"-">>
         \o (IF TruncQuot(x, 10) = 0 THEN <<>> ELSE NatDigits(-TruncQuot(x, 10)))
         \o <<Digit(-TruncRem(x, 10))>>

RECURSIVE UDigits(_)
\* the decimal digits of an unsigned value, none for zero
UDigits(a) ==
    IF BIsZero(a) THEN <<>>
    ELSE LET qr == UDivMod(a, FromInt(10, Len(a)))
         IN  UDigits(qr[1]) \o <<Digit(qr[2][1])>>

\* fmt's %d of an int64
FormatInt64(a) ==
    IF BIsZero(a) THEN <<"0">>
    ELSE IF BIsNeg(a) THEN <<"-">> \o UDigits(BNeg(a))
    ELSE UDigits(a)

\* fmt's %d of a string operand: the verb does not fit the type
FormatBadVerbD(str) ==
    <<"%", "!", "d", "(", "s", "t", "r", "i", "n", "g", "=">> \o str \o <<")">>

RECURSIVE TrimRight(_, _)
\* strings.TrimRight(str, cutset) for a one-character cutset
TrimRight(str, c) ==
    IF str # <<>> /\ str[Len(str)] = c
    THEN TrimRight(SubSeq(str, 1, Len(str) - 1), c)
    ELSE str

ToStringDollars(m) ==
    LET trimmed == TrimRight(Itoa(m.Nanos), "0")
        nanos == IF trimmed = <<>> THEN <<"0", "0">>
                 ELSE IF Len(trimmed) = 1 THEN trimmed \o <<"0">>
                 ELSE trimmed
    IN  FormatInt64(m.Units) \o <<".">> \o FormatBadVerbD(nanos)

---------------------------------------------------------------------------
(* The calls.  A caller holds an amount l, calls one function of the       *)
(* package on it (with a second operand or a scalar where the function     *)
(* takes one) and keeps what the call returned.  A caller that has negated *)
(* l may add the result to l: Sum(l, Negate(l)).                           *)

\* largest |units| of the small amounts
MaxUnits == 2

\* largest scalar n of MultiplyInt and DivideInt
MaxN == 4

UnitsSamples ==
    {MinInt64, MaxInt64, Int64(5)} \cup {Int64(u) : u \in -MaxUnits..MaxUnits}

\* in and out of nanosMin..nanosMax, with none, two and nine decimal places
NanosSamples ==
    {-nanosMod, nanosMin, -5, 0, 5, 910000000, nanosMax, nanosMod}

CurrencySamples == {"", "USD", "EUR"}

Amounts ==
    {Money(u, nn, c) : u \in UnitsSamples, nn \in NanosSamples,
                       c \in CurrencySamples}

\* second operands of MultipleFast and DivideFast, which never read the
\* second operand's currency code
Factors == {a \in Amounts : a.CurrencyCode = ""}

\* scalars of MultipleFastInt and DivideFastInt
ScalarSamples == {Int64(d) : d \in {-1, 0, 1, 2, 100}}

Init ==
    /\ op = "none"
    /\ l \in Amounts
    /\ r = EmptyMoney
    /\ n = 0
    /\ k = Int64(0)
    /\ out = EmptyMoney
    /\ err = ErrNil
    /\ fault = FaultNone
    /\ flag = FALSE
    /\ num = Int64(0)
    /\ text = <<>>

\* the call name(l, ...) with no second operand returned a bool
ReturnBool(name, b) ==
    /\ op' = name
    /\ flag' = b
    /\ UNCHANGED <<l, r, n, k, out, err, fault, num, text>>

\* the call name(l, ...) returned, or panicked with, res
ReturnMoney(name, res) ==
    /\ op' = name
    /\ out' = res.val
    /\ fault' = res.fault
    /\ UNCHANGED <<l, err, flag, num, text>>

CallIsValid == op = "none" /\ ReturnBool("IsValid", IsValid(l))

CallIsZero == op = "none" /\ ReturnBool("IsZero", IsZero(l))

CallIsPositive == op = "none" /\ ReturnBool("IsPositive", IsPositive(l))

CallIsNegative == op = "none" /\ ReturnBool("IsNegative", IsNegative(l))

CallAreSameCurrency ==
    /\ op = "none"
    /\ \E b \in Amounts :
          /\ op' = "AreSameCurrency"
          /\ r' = b
          /\ flag' = AreSameCurrency(l, b)
          /\ UNCHANGED <<l, n, k, out, err, fault, num, text>>

CallAreEquals ==
    /\ op = "none"
    /\ \E b \in Amounts :
          /\ op' = "AreEquals"
          /\ r' = b
          /\ flag' = AreEquals(l, b)
          /\ UNCHANGED <<l, n, k, out, err, fault, num, text>>

CallNegate ==
    /\ op = "none"
    /\ ReturnMoney("Negate", Completed(Negate(l)))
    /\ UNCHANGED <<r, n, k>>

\* Sum(l, b) for any b, or for the b that Negate(l) just returned
CallSum ==
    \E b \in (IF op = "none" THEN Amounts
               ELSE IF op = "Negate" THEN {out} ELSE {}) :
        /\ op' = "Sum"
        /\ r' = b
        /\ out' = Sum(l, b).val
        /\ err' = Sum(l, b).err
        /\ UNCHANGED <<l, n, k, fault, flag, num, text>>

CallMultiplyInt ==
    /\ op = "none"
    /\ \E cnt \in 0..MaxN :
          /\ n' = cnt
          /\ ReturnMoney("MultiplyInt", MultiplyInt(l, cnt))
          /\ UNCHANGED <<r, k>>

CallDivideInt ==
    /\ op = "none"
    /\ \E cnt \in 0..MaxN :
          /\ n' = cnt
          /\ ReturnMoney("DivideInt", DivideInt(l, cnt))
          /\ UNCHANGED <<r, k>>

CallMultipleFast ==
    /\ op = "none"
    /\ \E b \in Factors :
          /\ r' = b
          /\ ReturnMoney("MultipleFast", MultipleFast(l, b))
          /\ UNCHANGED <<n, k>>

CallDivideFast ==
    /\ op = "none"
    /\ \E b \in Factors :
          /\ r' = b
          /\ ReturnMoney("DivideFast", DivideFast(l, b))
          /\ UNCHANGED <<n, k>>

CallDivideFastInt ==
    /\ op = "none"
    /\ \E d \in ScalarSamples :
          /\ k' = d
          /\ ReturnMoney("DivideFastInt", DivideFastInt(l, d))
          /\ UNCHANGED <<r, n>>

CallMultipleFastInt ==
    /\ op = "none"
    /\ \E d \in ScalarSamples :
          /\ k' = d
          /\ ReturnMoney("MultipleFastInt", MultipleFastInt(l, d))
          /\ UNCHANGED <<r, n>>

CallToStringDollars ==
    /\ op = "none"
    /\ op' = "ToStringDollars"
    /\ text' = ToStringDollars(l)
    /\ UNCHANGED <<l, r, n, k, out, err, fault, flag, num>>

CallToInt ==
    /\ op = "none"
    /\ op' = "ToInt"
    /\ num' = ToInt(l)
    /\ UNCHANGED <<l, r, n, k, out, err, fault, flag, text>>

Next ==
    \/ CallIsValid
    \/ CallIsZero
    \/ CallIsPositive
    \/ CallIsNegative
    \/ CallAreSameCurrency
    \/ CallAreEquals
    \/ CallNegate
    \/ CallSum
    \/ CallMultiplyInt
    \/ CallDivideInt
    \/ CallMultipleFast
    \/ CallDivideFast
    \/ CallDivideFastInt
    \/ CallMultipleFastInt
    \/ CallToStringDollars
    \/ CallToInt

Spec == Init /\ [][Next]_vars

---------------------------------------------------------------------------
(* Exact values.  The integer units * 10^9 + nanos that an amount denotes  *)
(* is kept as the pair <<q, c>> with value q * 10^9 + c and                *)
(* 0 <= c < 10^9, q an integer of MathBytes bytes: every integer has       *)
(* exactly one such pair, so two values are equal iff their pairs are.     *)

Math(x) == FromInt(x, MathBytes)

\* \div rounds down and % is non-negative
Exact(m) ==
    <<BAdd(BExt(m.Units, MathBytes), Math(m.Nanos \div nanosMod)),
      m.Nanos % nanosMod>>

ExactAdd(x, y) ==
    <<BAdd(BAdd(x[1], y[1]), Math((x[2] + y[2]) \div nanosMod)),
      (x[2] + y[2]) % nanosMod>>

ExactNeg(x) ==
    IF x[2] = 0 THEN <<BNeg(x[1]), 0>>
    ELSE <<BSub(BNeg(x[1]), Math(1)), nanosMod - x[2]>>

RECURSIVE Times(_, _)
\* c * x for a small integer c
Times(c, x) ==
    IF c = 0 THEN <<Math(0), 0>>
    ELSE IF c < 0 THEN ExactNeg(Times(-c, x))
    ELSE ExactAdd(Times(c - 1, x), x)

\* x is denoted by some amount with int64 units and |nanos| < 10^9: its
\* quotient by 10^9, rounded toward zero, is an int64
Representable(x) ==
    FitsInt64(IF BIsNeg(x[1]) /\ x[2] # 0 THEN BAdd(x[1], Math(1)) ELSE x[1])

\* validity as the data model states it: nanos in range, and of the sign
\* of units unless one of them is zero
WellFormed(m) ==
    /\ -999999999 <= m.Nanos /\ m.Nanos <= 999999999
    /\ \/ m.Nanos = 0
       \/ BIsZero(m.Units)
       \/ m.Nanos > 0 /\ BIsPos(m.Units)
       \/ m.Nanos < 0 /\ BIsNeg(m.Units)

\* Sum was called on two valid amounts of one currency whose exact sum
\* has int64 units
SumOfValid ==
    /\ op = "Sum"
    /\ IsValid(l) /\ IsValid(r)
    /\ l.CurrencyCode = r.CurrencyCode
    /\ Representable(ExactAdd(Exact(l), Exact(r)))

---------------------------------------------------------------------------
(* Claims                                                                  *)

\* C1: Sum of two valid amounts of one currency (exact sum within int64
\* units) returns no error and a valid amount: nanos within
\* -999999999..999999999 and of the sign of units unless one is zero.
SumResultIsValid == SumOfValid => err = ErrNil /\ WellFormed(out) /\ IsValid(out)

\* C2: Sum of two valid amounts of one currency (exact sum within int64
\* units) denotes the exact arithmetic sum and carries the currency code.
SumIsExact ==
    SumOfValid =>
        /\ err = ErrNil
        /\ Exact(out) = ExactAdd(Exact(l), Exact(r))
        /\ out.CurrencyCode = l.CurrencyCode

\* C3: Sum fails with ErrInvalidValue when an operand is invalid (whatever
\* the currency codes), else with ErrMismatchingCurrency when the codes are
\* not the identical string, else succeeds; a failure returns the empty
\* amount.
SumChecksInOrder ==
    op = "Sum" =>
        IF ~IsValid(l) \/ ~IsValid(r)
        THEN err = ErrInvalidValue /\ out = EmptyMoney
        ELSE IF l.CurrencyCode # r.CurrencyCode
        THEN err = ErrMismatchingCurrency /\ out = EmptyMoney
        ELSE err = ErrNil

\* C3 witness: an invalid operand together with differing currency codes
SumInvalidAndMismatched ==
    /\ op = "Sum"
    /\ ~IsValid(r) /\ IsValid(l)
    /\ l.CurrencyCode # r.CurrencyCode /\ l.CurrencyCode # "" /\ r.CurrencyCode = ""
    /\ err = ErrInvalidValue

\* Sum(l, Negate(l)) was called on a valid l
SumWithNegation == op = "Sum" /\ r = Negate(l) /\ IsValid(l)

\* C4 as stated: for every valid a, Sum(a, Negate(a)) succeeds with units 0,
\* nanos 0 and the currency code of a.
SumWithNegationIsZero ==
    SumWithNegation =>
        err = ErrNil /\ out = Money(Int64(0), 0, l.CurrencyCode)

\* C4 amended: the same for every valid a except those with units = -2^63
\* and nanos # 0, whose negation is not a valid amount.
SumWithNegationIsZeroInRange ==
    SumWithNegation /\ ~(l.Units = MinInt64 /\ l.Nanos # 0) =>
        err = ErrNil /\ out = Money(Int64(0), 0, l.CurrencyCode)

\* C4 witness: the largest units, with nanos and a currency, added to the
\* amount that Negate returned for it
SumWithNegationReached ==
    /\ SumWithNegation
    /\ l.Units = MaxInt64 /\ l.Nanos > 0 /\ l.CurrencyCode = "USD"
    /\ err = ErrNil

\* C5: IsPositive(m) iff m is valid and (units > 0, or units = 0 and
\* nanos > 0); IsNegative(m) iff m is valid and (units < 0, or units = 0 and
\* nanos < 0); neither holds of an invalid amount.
SignPredicatesRequireValid ==
    /\ op = "IsPositive" =>
         (flag <=> IsValid(l) /\ (BIsPos(l.Units)
                                    \/ (BIsZero(l.Units) /\ l.Nanos > 0)))
    /\ op = "IsNegative" =>
         (flag <=> IsValid(l) /\ (BIsNeg(l.Units)
                                    \/ (BIsZero(l.Units) /\ l.Nanos < 0)))

\* C6: MultiplyInt(m, n) for valid m and n >= 1, with n * m.units (and the
\* units of n * m) within int64, does not panic and returns a valid amount
\* denoting n * m in the currency of m.
MultiplyIntIsExact ==
    /\ op = "MultiplyInt"
    /\ IsValid(l) /\ n >= 1
    /\ FitsInt64(Times(n, <<BExt(l.Units, MathBytes), 0>>)[1])
    /\ Representable(Times(n, Exact(l)))
    => /\ fault = FaultNone
       /\ WellFormed(out)
       /\ Exact(out) = Times(n, Exact(l))
       /\ out.CurrencyCode = l.CurrencyCode

\* the call divided by zero: DivideFastInt(l, 0), or DivideFast(l, r) with
\* r.units * 100 + r.nanos / 10000000 = 0
ZeroDivisor ==
    \/ op = "DivideFastInt" /\ BIsZero(k)
    \/ op = "DivideFast" /\ BIsZero(ToInt(r))

\* C7: a fast division by a zero divisor ends in a reported error, never
\* in a run-time fault.
ZeroDivisorIsReported == ZeroDivisor => fault = FaultNone /\ err # ErrNil

\* decode(encode(m))
RoundTrip(m) ==
    toGoogleMoney(unitsAndNanoPartToMicros(m.Units, m.Nanos), m.CurrencyCode)

\* C8: MultipleFastInt(m, 1) and DivideFastInt(m, 1) of a valid m return m
\* with nanos truncated to a multiple of 10000000, and the round trip of
\* that result is the result again.
RoundTripKeepsTwoDecimals ==
    /\ op \in {"MultipleFastInt", "DivideFastInt"}
    /\ k = Int64(1)
    /\ IsValid(l)
    => /\ fault = FaultNone
       /\ out = Money(l.Units, l.Nanos - TruncRem(l.Nanos, 10000000),
                      l.CurrencyCode)
       /\ RoundTrip(out) = out

\* the fraction the claim describes: the digits of nanos without trailing
\* zeros, "00" when none is left, one "0" appended to a single digit
Fraction(nanos) ==
    LET trimmed == TrimRight(Itoa(nanos), "0")
    IN  IF trimmed = <<>> THEN <<"0", "0">>
        ELSE IF Len(trimmed) = 1 THEN trimmed \o <<"0">>
        ELSE trimmed

\* C9: for valid m with units >= 0 and nanos >= 0, ToStringDollars(m) is
\* the digits of units, ".", and that fraction: "5.91" for (5, 910000000),
\* "5.00" for (5, 0).
ToStringDollarsRenders ==
    /\ op = "ToStringDollars"
    /\ IsValid(l) /\ ~BIsNeg(l.Units) /\ l.Nanos >= 0
    => text = FormatInt64(l.Units) \o <<".">> \o Fraction(l.Nanos)

\* DivideInt(l, n) returned for a valid l and n >= 1, and neither -l nor
\* the multiples of l it passes through leave the int64 units
DivideIntReturned ==
    /\ op = "DivideInt"
    /\ IsValid(l) /\ n >= 1
    /\ fault = FaultNone
    /\ Representable(Times(-1, Exact(l)))
    /\ Representable(Times(n - 2, Exact(l)))

===========================================================================
